---- MODULE Spec2Model ----
(***************************************************************************)
(* Model of the article scraper (scraper/articles/utils.py): the run loop  *)
(* scraper_run, the persistence step save_article, the three extractors    *)
(* and the text normalizer, together with the Article table they write.    *)
(*                                                                         *)
(* Python values are records tagged by "kind"; a str is a sequence of      *)
(* one-token strings, so that strip, endswith and removesuffix are         *)
(* computed and not assumed.                                               *)
(***************************************************************************)
EXTENDS Integers, Sequences, FiniteSets, TLC

VARIABLES pc, links, idx, link, driver, resp, soup, article, store,
          skipped_cnt, exc, calls, no_upsert_cnt, upserts

vars == <<pc, links, idx, link, driver, resp, soup, article, store,
          skipped_cnt, exc, calls, no_upsert_cnt, upserts>>

(* ------------------------------ bounds -------------------------------- *)

\* longest URL list read from websites.json
MaxLinks == 2

\* most <div> and <article> elements of a document given to body_finder
MaxElems == 2

(* --------------------------- Python values ---------------------------- *)

None == [kind |-> "none"]

Str(s) == [kind |-> "str", s |-> s]

\* a bs4 Tag: element name, class attribute, own text, text of the
\* ad-container divs nested in it, other attributes used by the finders
Tag(name, cls, text, adtext) ==
    [kind |-> "tag", name |-> name, cls |-> cls, text |-> text, adtext |-> adtext]

\* a naive datetime.datetime
DateTime(y, mo, d, h, mi, s) ==
    [kind |-> "datetime", y |-> y, mo |-> mo, d |-> d, h |-> h, mi |-> mi, s |-> s]

IsNone(v) == v.kind = "none"

\* Python truthiness of the values the code tests with `if v` / `v or w`
Truthy(v) ==
    CASE v.kind = "none" -> FALSE
      [] v.kind = "str" -> v.s # <<>>
      [] OTHER -> TRUE

\* hasattr(value, 'get_text')
HasGetText(v) == v.kind = "tag"

IsSpace(c) == c = " "

RECURSIVE lstrip(_)
lstrip(s) == IF s # <<>> /\ IsSpace(Head(s)) THEN lstrip(Tail(s)) ELSE s

RECURSIVE rstrip(_)
rstrip(s) ==
    IF s # <<>> /\ IsSpace(s[Len(s)]) THEN rstrip(SubSeq(s, 1, Len(s) - 1)) ELSE s

\* str.strip()
strip(s) == rstrip(lstrip(s))

\* Tag.get_text(strip=True): the text of the element and of everything
\* still nested in it, whitespace stripped
get_text(tag) == strip(tag.text \o tag.adtext)

\* Tag.decompose() applied to the ad containers nested in the element
WithoutAds(tag) == [tag EXCEPT !.adtext = <<>>]

\* _normalize_text (utils.py 9-21)
normalize_text(value) ==
    IF IsNone(value) THEN None
    ELSE LET text == IF HasGetText(value) THEN get_text(value)
                     ELSE IF value.kind = "str" THEN strip(value.s)
                     ELSE <<"<repr>">>
         IN IF text # <<>> THEN Str(text) ELSE None

\* Python `a or b`
Or(a, b) == IF Truthy(a) THEN a ELSE b

(* -------------------------------- URLs -------------------------------- *)

\* A URL is a sequence of tokens: a head (scheme and authority) followed by
\* path tokens, "/" being the path separator.

\* str.endswith('/')
endswith_slash(s) == s # <<>> /\ s[Len(s)] = "/"

\* str.removesuffix('/') and link[:-1] on a string that ends with '/'
removesuffix_slash(s) == IF endswith_slash(s) THEN SubSeq(s, 1, Len(s) - 1) ELSE s

\* mutant: every trailing '/' is removed (rstrip('/'))
RECURSIVE strip_link_all(_)
strip_link_all(s) == IF endswith_slash(s) THEN strip_link_all(SubSeq(s, 1, Len(s) - 1)) ELSE s

\* mutant: the test asks whether the link holds a '/' at all
strip_link_contains(s) ==
    IF \E i \in 1..Len(s) : s[i] = "/" THEN SubSeq(s, 1, Len(s) - 1) ELSE s

\* the trailing-separator clean-up at the head of the loop body
\* (utils.py 218-223)
strip_link(s) == IF endswith_slash(s) THEN removesuffix_slash(s) ELSE s

\* urllib.parse.urlparse on the head token: (scheme, netloc) or ValueError
urlparse(s) ==
    IF s = <<>> THEN [raises |-> FALSE, scheme |-> "", netloc |-> ""]
    ELSE CASE Head(s) = "https://h" -> [raises |-> FALSE, scheme |-> "https", netloc |-> "h"]
           [] Head(s) = "http://h"  -> [raises |-> FALSE, scheme |-> "http", netloc |-> "h"]
           [] Head(s) = "ftp://h"   -> [raises |-> FALSE, scheme |-> "ftp", netloc |-> "h"]
           [] Head(s) = "https://"  -> [raises |-> FALSE, scheme |-> "https", netloc |-> ""]
           [] Head(s) = "http://["  -> [raises |-> TRUE, scheme |-> "", netloc |-> ""]
           [] OTHER                 -> [raises |-> FALSE, scheme |-> "", netloc |-> ""]

\* mutant: a scheme or a host is enough
valid_url_either(p) == p.scheme \in {"http", "https"} \/ p.netloc # ""

\* the validity test of utils.py 233
valid_url(p) == p.scheme \in {"http", "https"} /\ p.netloc # ""

bad_statuses == {404, 500, 408, 403}

(* ------------------------------ documents ----------------------------- *)

\* <meta property="og:title" content=...>
Meta(content) ==
    [kind |-> "tag", name |-> "meta", cls |-> "", text |-> <<>>, adtext |-> <<>>,
     content |-> content]

\* <time datetime=...>text</time>
TimeTag(datetime, text) ==
    [kind |-> "tag", name |-> "time", cls |-> "", text |-> text, adtext |-> <<>>,
     datetime |-> datetime]

\* <a href="/autorzy/...">, with the .text of the next <p> after it
\* (None when find_next('p') finds no element)
AuthorLink(next_p) ==
    [kind |-> "tag", name |-> "a", cls |-> "", text |-> <<>>, adtext |-> <<>>,
     next_p |-> next_p]

\* BeautifulSoup(html_content, 'html.parser'): what the finders can see.
\* h1, og, title, time, author: the first such element or None;
\* elems: the <div> and <article> elements in document order.
Soup(h1, og, title, elems, time, author) ==
    [kind |-> "soup", h1 |-> h1, og |-> og, title |-> title, elems |-> elems,
     time |-> time, author |-> author]

\* title_finder (utils.py 24-45). A Tag is always truthy, so an <h1> that
\* is present decides the result even when its text is empty.
title_finder(sp) ==
    IF IsNone(sp) THEN None
    ELSE IF ~IsNone(sp.h1) THEN normalize_text(sp.h1)
    ELSE IF ~IsNone(sp.og) /\ Truthy(sp.og.content) THEN Str(strip(sp.og.content.s))
    ELSE IF ~IsNone(sp.title) THEN normalize_text(sp.title)
    ELSE None

\* mutant: the ad containers stay in the document
decompose_ads_none(elems) == elems

\* the decompose loop of body_finder (utils.py 64-65): ad-container divs
\* leave the document, wherever they are
RECURSIVE decompose_ads(_)
decompose_ads(elems) ==
    IF elems = <<>> THEN <<>>
    ELSE IF Head(elems).name = "div" /\ Head(elems).cls = "ad-container"
         THEN decompose_ads(Tail(elems))
         ELSE <<WithoutAds(Head(elems))>> \o decompose_ads(Tail(elems))

\* soup.find(name, attrs): first element in document order, or None
RECURSIVE find(_, _, _)
find(elems, name, cls) ==
    IF elems = <<>> THEN None
    ELSE IF Head(elems).name = name /\ (cls = "" \/ Head(elems).cls = cls)
         THEN Head(elems)
         ELSE find(Tail(elems), name, cls)

\* soup.find_all('div')
find_all_div(elems) == SelectSeq(elems, LAMBDA e : e.name = "div")

\* the selectors list of body_finder (utils.py 57-62)
selectors ==
    << <<"div", "table-post">>, <<"article", "">>,
       <<"div", "article-body">>, <<"div", "post-content">> >>

RECURSIVE first_selector(_, _)
first_selector(elems, sels) ==
    IF sels = <<>> THEN None
    ELSE LET tag == find(elems, Head(sels)[1], Head(sels)[2])
         IN IF ~IsNone(tag) THEN tag ELSE first_selector(elems, Tail(sels))

\* max(divs, key=len(get_text)): the first element of greatest key
RECURSIVE max_by_text(_)
max_by_text(divs) ==
    IF Len(divs) = 1 THEN divs[1]
    ELSE LET rest == max_by_text(Tail(divs))
         IN IF Len(get_text(Head(divs))) >= Len(get_text(rest)) THEN Head(divs) ELSE rest

\* the least text length the largest-div fallback does not accept
BodyThreshold == 100

\* mutant: the largest div is accepted from the threshold on
body_finder_ge(sp) ==
    IF IsNone(sp) THEN None
    ELSE LET elems == decompose_ads(sp.elems)
             tag == first_selector(elems, selectors)
             divs == find_all_div(elems)
         IN IF ~IsNone(tag) THEN tag
            ELSE IF divs = <<>> THEN None
            ELSE IF Len(get_text(max_by_text(divs))) >= BodyThreshold
                 THEN max_by_text(divs)
                 ELSE None

\* body_finder (utils.py 48-80)
body_finder(sp) ==
    IF IsNone(sp) THEN None
    ELSE LET elems == decompose_ads(sp.elems)
             tag == first_selector(elems, selectors)
             divs == find_all_div(elems)
         IN IF ~IsNone(tag) THEN tag
            ELSE IF divs = <<>> THEN None
            ELSE IF Len(get_text(max_by_text(divs))) > BodyThreshold
                 THEN max_by_text(divs)
                 ELSE None

(* -------------------------------- dates ------------------------------- *)

Raise == [kind |-> "raise"]

Digits == <<"0", "1", "2", "3", "4", "5", "6", "7", "8", "9">>

D2(n) == <<Digits[((n \div 10) % 10) + 1], Digits[(n % 10) + 1]>>

D4(n) == D2(n \div 100) \o D2(n % 100)

\* datetime.strftime('%d.%m.%Y %H:%M:%S')
strftime(dt) ==
    D2(dt.d) \o <<".">> \o D2(dt.mo) \o <<".">> \o D4(dt.y) \o <<" ">> \o
    D2(dt.h) \o <<":">> \o D2(dt.mi) \o <<":">> \o D2(dt.s)

IsDigit(c) == \E i \in 1..10 : Digits[i] = c

DigitVal(c) == (CHOOSE i \in 1..10 : Digits[i] = c) - 1

RECURSIVE Num(_)
Num(s) == IF s = <<>> THEN 0 ELSE 10 * Num(SubSeq(s, 1, Len(s) - 1)) + DigitVal(s[Len(s)])

\* the shape '%d.%m.%Y %H:%M:%S' in its zero-padded form
DateShape(s) ==
    /\ Len(s) = 19
    /\ \A i \in 1..19 :
         CASE i \in {3, 6} -> s[i] = "."
           [] i = 11 -> s[i] = " "
           [] i \in {14, 17} -> s[i] = ":"
           [] OTHER -> IsDigit(s[i])

\* datetime.datetime.strptime(value, '%d.%m.%Y %H:%M:%S'): the datetime, or
\* Raise for the ValueError of a string that does not match or is no date
strptime(s) ==
    IF ~DateShape(s) THEN Raise
    ELSE LET dt == DateTime(Num(SubSeq(s, 7, 10)), Num(SubSeq(s, 4, 5)), Num(SubSeq(s, 1, 2)),
                            Num(SubSeq(s, 12, 13)), Num(SubSeq(s, 15, 16)), Num(SubSeq(s, 18, 19)))
         IN IF dt.mo \in 1..12 /\ dt.d \in 1..31 /\ dt.y >= 1 /\ dt.h <= 23 /\ dt.mi <= 59
               /\ dt.s <= 61
            THEN dt ELSE Raise

\* dateparser.parse(raw, languages=['pl']) on the raw strings of the modelled
\* documents: a datetime, None when it recognises no date, Raise when it fails
dateparser_parse(raw) ==
    CASE raw = <<"2024-03-01T10:00:00">> -> DateTime(2024, 3, 1, 10, 0, 0)
      [] raw = <<"1 marca 2024">>        -> DateTime(2024, 3, 1, 0, 0, 0)
      [] raw = <<"\\x00">>               -> Raise
      [] OTHER                           -> None

\* the <time> step of published_at_finder (utils.py 97-103); the parse is
\* outside any try, so its error leaves the function
time_step(sp) ==
    IF IsNone(sp.time) THEN None
    ELSE LET raw == IF Truthy(sp.time.datetime) THEN sp.time.datetime.s
                    ELSE get_text(sp.time)
         IN IF raw = <<>> THEN None
            ELSE LET parsed == dateparser_parse(raw)
                 IN IF parsed.kind = "raise" THEN Raise
                    ELSE IF parsed.kind = "datetime" THEN Str(strftime(parsed))
                    ELSE None

\* the author-link step (utils.py 105-115); every error in it is swallowed
author_step(sp) ==
    IF IsNone(sp.author) THEN None
    ELSE IF IsNone(sp.author.next_p) THEN None
    ELSE IF sp.author.next_p.s = <<>> THEN None
    ELSE LET parsed == dateparser_parse(sp.author.next_p.s)
         IN IF parsed.kind = "datetime" THEN Str(strftime(parsed)) ELSE None

\* published_at_finder (utils.py 83-118): a str 'DD.MM.YYYY HH:MM:SS', None,
\* or Raise when the error of the <time> step escapes
published_at_finder(sp, have_dateparser) ==
    IF IsNone(sp) THEN None
    ELSE IF ~have_dateparser THEN None
    ELSE IF time_step(sp) # None THEN time_step(sp)
    ELSE author_step(sp)

(* --------------------------- the Article table ------------------------ *)

\* the sentinel of save_article
NotFound == Str(<<"Not Found">>)

\* str(tag): the serialized element
Html(tag) == <<"<", tag.name, ">">> \o tag.text \o tag.adtext \o <<"</", tag.name, ">">>

\* django.utils.timezone.make_aware(published_at, tz)
make_aware(dt) == [kind |-> "datetime", y |-> dt.y, mo |-> dt.mo, d |-> dt.d,
                   h |-> dt.h, mi |-> dt.mi, s |-> dt.s, tz |-> "current"]

\* a row of the Article model (models.py 4-9)
Row(id, url, title, body, plain_body, published_at) ==
    [id |-> id, url |-> url, title |-> title, body |-> body,
     plain_body |-> plain_body, published_at |-> published_at]

\* mutant: the query looks for the URL with its trailing '/' still on
exists_unstripped(st, url) == \E r \in st : r.url = url \o <<"/">>

\* Article.objects.filter(url=link).exists()
exists(st, url) == \E r \in st : r.url = url

\* the primary key the database gives the next row
next_id(st) == Cardinality(st) + 1

\* models.py 8: published_at is declared null=False, so an INSERT that
\* carries no published_at violates NOT NULL (IntegrityError)
insert_ok(row) == ~IsNone(row.published_at)

\* mutant: a row the database refuses is left in the table all the same,
\* and an update that carries no date wipes the date of the row
update_or_create_partial(st, url, defaults) ==
    LET new == [id |-> Cardinality(st) + 1, url |-> url, title |-> defaults.title,
                body |-> defaults.body, plain_body |-> defaults.plain_body,
                published_at |-> defaults.published_at]
    IN IF \E r \in st : r.url = url
       THEN [raises |-> FALSE, created |-> FALSE,
             store |-> {r \in st : r.url # url} \cup
                       {[new EXCEPT !.id = (CHOOSE r \in st : r.url = url).id]}]
       ELSE [raises |-> new.published_at.kind = "none", created |-> TRUE,
             store |-> st \cup {new}]

\* mutant: a plain create, whether or not the key has a row
update_or_create_insert(st, url, defaults) ==
    LET new == [id |-> Cardinality(st) + 1, url |-> url, title |-> defaults.title,
                body |-> defaults.body, plain_body |-> defaults.plain_body,
                published_at |-> defaults.published_at]
    IN IF new.published_at.kind # "none"
       THEN [raises |-> FALSE, created |-> TRUE, store |-> st \cup {new}]
       ELSE [raises |-> TRUE, created |-> FALSE, store |-> st]

\* Article.objects.update_or_create(url=url, defaults=defaults): the row
\* with that url takes the defaults, or a new row is created from them.
\* A published_at of None in defaults stands for the absent key.
update_or_create(st, url, defaults) ==
    IF exists(st, url)
    THEN LET old == CHOOSE r \in st : r.url = url
             new == Row(old.id, url, defaults.title, defaults.body, defaults.plain_body,
                        IF IsNone(defaults.published_at) THEN old.published_at
                        ELSE defaults.published_at)
         IN [raises |-> FALSE, created |-> FALSE, store |-> (st \ {old}) \cup {new}]
    ELSE LET new == Row(next_id(st), url, defaults.title, defaults.body,
                        defaults.plain_body, defaults.published_at)
         IN IF insert_ok(new)
            THEN [raises |-> FALSE, created |-> TRUE, store |-> st \cup {new}]
            ELSE [raises |-> TRUE, created |-> FALSE, store |-> st]

\* mutant: the title without the sentinel
save_title_raw(art) == normalize_text(art.title)

\* save_article, the title (utils.py 143)
save_title(art) == Or(normalize_text(art.title), NotFound)

\* save_article, body_html (utils.py 145-150)
save_body(art) ==
    IF HasGetText(art.body) THEN Str(Html(art.body))
    ELSE Or(normalize_text(art.body), NotFound)

\* save_article, plain_body (utils.py 148, 151)
save_plain_body(art) ==
    IF HasGetText(art.body) THEN Or(normalize_text(Str(get_text(art.body))), NotFound)
    ELSE Or(normalize_text(art.plain_body),
            IF save_body(art) # NotFound THEN save_body(art) ELSE NotFound)

\* save_article, the key (utils.py 153); uuid4 is a fresh token
save_url(art, uuid) == Or(art.url, Str(<<"not-found-", uuid>>))

\* save_article, published_at (utils.py 155-174): a datetime made aware, or
\* None when the value is absent, falsy or does not parse
save_published_at(art) ==
    LET val == art.published_at
        parsed == IF ~Truthy(val) THEN None
                  ELSE IF val.kind = "datetime" THEN val
                  ELSE IF val.kind = "str" THEN
                       (IF strptime(val.s) = Raise THEN None ELSE strptime(val.s))
                  ELSE None
    IN IF IsNone(parsed) THEN None ELSE make_aware(parsed)

\* the defaults dict of save_article (utils.py 166-174)
save_defaults(art) ==
    [title |-> save_title(art), body |-> save_body(art),
     plain_body |-> save_plain_body(art), published_at |-> save_published_at(art)]

\* save_article (utils.py 136-183) on the table st
save_article(st, art, uuid) ==
    update_or_create(st, save_url(art, uuid).s, save_defaults(art))

\* the article dict built by the loop body (utils.py 255-265)
build_article(sp, url, have_dateparser) ==
    LET body == body_finder(sp)
    IN [title |-> title_finder(sp),
        body |-> body,
        plain_body |-> IF ~IsNone(body) /\ HasGetText(body) THEN Str(get_text(body))
                       ELSE normalize_text(None),
        published_at |-> published_at_finder(sp, have_dateparser),
        url |-> Str(url)]

(* ------------------------- inputs of the model ------------------------ *)

UrlA == <<"https://h", "/", "a">>

\* the URLs websites.json may list: with no, one and two trailing
\* separators, with a scheme that is not http(s), with no host, in a form
\* urlparse rejects (an unclosed IPv6 bracket), and the empty string
Urls ==
    { UrlA, UrlA \o <<"/">>, UrlA \o <<"/", "/">>,
      <<"ftp://h", "/", "a">>, <<"https://", "/", "a">>, <<"http://[", "/", "a">>, <<>> }

RECURSIVE ListsUpTo(_)
ListsUpTo(n) ==
    IF n = 0 THEN {<<>>}
    ELSE ListsUpTo(n - 1) \cup
         {Append(l, u) : l \in {m \in ListsUpTo(n - 1) : Len(m) = n - 1}, u \in Urls}

\* a text longer than the threshold of the largest-div fallback
LongText == [i \in 1..(BodyThreshold + 1) |-> "x"]

OldRow(url) ==
    Row(1, url, Str(<<"old">>), Str(<<"<", "p", ">", "old", "</", "p", ">">>),
        Str(<<"old">>), make_aware(DateTime(2023, 12, 31, 23, 59, 59)))

\* the table before the run: empty, or holding one earlier article
InitStores == { {}, {OldRow(UrlA)} }

\* pages the browser may hand back
DocFull ==
    Soup(Tag("h1", "", <<" ", "T", " ">>, <<>>), None, Tag("title", "", <<"S">>, <<>>),
         << Tag("div", "ad-container", <<"ad">>, <<>>),
            Tag("article", "", <<"b">>, <<"ad">>) >>,
         TimeTag(Str(<<"2024-03-01T10:00:00">>), <<>>), None)

DocEmpty == Soup(None, None, None, <<>>, None, None)

DocNoDate ==
    Soup(None, None, Tag("title", "", <<"S">>, <<>>),
         << Tag("div", "", LongText, <<>>) >>, TimeTag(None, <<"soon">>), None)

DocBare ==
    Soup(Tag("h1", "", <<" ">>, <<>>), None, None, << Tag("div", "", <<"b">>, <<>>) >>,
         None, AuthorLink(Str(<<"1 marca 2024">>)))

DocOg ==
    Soup(None, Meta(Str(<<" ">>)), None, << Tag("div", "post-content", <<>>, <<>>) >>,
         TimeTag(None, <<"1 marca 2024">>), AuthorLink(None))

DocBadTime ==
    Soup(Tag("h1", "", <<"T">>, <<>>), None, None, << Tag("article", "", <<"b">>, <<>>) >>,
         TimeTag(Str(<<"\\x00">>), <<>>), None)

Docs == {DocFull, DocEmpty, DocNoDate, DocBare, DocOg, DocBadTime}

\* statuses the probe may see
Statuses == bad_statuses \cup {200, 503}

(* ------------------------------ scraper_run --------------------------- *)

Init ==
    /\ pc = "build"
    /\ links \in ListsUpTo(MaxLinks)
    /\ store \in InitStores
    /\ idx = 0
    /\ link = <<>>
    /\ driver = "none"
    /\ resp = 0
    /\ soup = None
    /\ article = None
    /\ skipped_cnt = 0
    /\ exc = "none"
    /\ calls = <<>>
    /\ no_upsert_cnt = 0
    /\ upserts = <<>>

\* `skipped_cnt =+ 1` (utils.py 227, 235, 241, 245): the assignment of +1
skip_assign(cnt) == 1

\* a call to a collaborator, as the current iteration made it: the
\* operation, the URL it was given and how it ended
Call(op, url, res) == [op |-> op, url |-> url, res |-> res]

\* `continue`, after the skip counter was assigned (skip) or not
Continue(skip) ==
    /\ pc' = "loop"
    /\ skipped_cnt' = IF skip THEN skip_assign(skipped_cnt) ELSE skipped_cnt
    /\ no_upsert_cnt' = no_upsert_cnt + 1

\* an exception no handler of the loop body catches: on to the finally block
Escape(e) ==
    /\ pc' = "finally"
    /\ exc' = e
    /\ no_upsert_cnt' = no_upsert_cnt + 1
    /\ UNCHANGED skipped_cnt

\* utils.py 210-211
BuildDriver ==
    /\ pc = "build"
    /\ \/ driver' = "live" /\ pc' = "load" /\ UNCHANGED exc
       \/ exc' = "WebDriverException" /\ pc' = "finally" /\ UNCHANGED driver
    /\ UNCHANGED <<links, idx, link, resp, soup, article, store, skipped_cnt, calls,
                   no_upsert_cnt, upserts>>

\* utils.py 213-214
LoadLinks ==
    /\ pc = "load"
    /\ \/ pc' = "loop" /\ UNCHANGED exc
       \/ exc' = "OSError" /\ pc' = "finally"
    /\ UNCHANGED <<links, idx, link, driver, resp, soup, article, store, skipped_cnt,
                   calls, no_upsert_cnt, upserts>>

\* mutant: the list is walked from its end
nth_link_reversed(ls, i) == ls[Len(ls) + 1 - i]

\* enumerate(list(links), start=1): the link that comes with index i
\* (utils.py 217)
nth_link(ls, i) == ls[i]

\* the for header and the trailing-separator clean-up (utils.py 217-223)
NextLink ==
    /\ pc = "loop"
    /\ IF idx < Len(links)
       THEN /\ idx' = idx + 1
            /\ link' = strip_link(nth_link(links, idx + 1))
            /\ calls' = <<>>
            /\ pc' = "exists"
       ELSE /\ pc' = "finally"
            /\ UNCHANGED <<idx, link, calls>>
    /\ UNCHANGED <<links, driver, resp, soup, article, store, skipped_cnt, exc,
                   no_upsert_cnt, upserts>>

\* the existence check (utils.py 224-230); an error of the query is logged
\* and the URL goes on
CheckExists ==
    /\ pc = "exists"
    /\ \/ /\ exists(store, link)
          /\ calls' = Append(calls, Call("exists", link, "True"))
          /\ Continue(TRUE)
       \/ /\ ~exists(store, link)
          /\ calls' = Append(calls, Call("exists", link, "False"))
          /\ pc' = "validate"
          /\ UNCHANGED <<skipped_cnt, no_upsert_cnt>>
       \/ /\ calls' = Append(calls, Call("exists", link, "raise"))
          /\ pc' = "validate"
          /\ UNCHANGED <<skipped_cnt, no_upsert_cnt>>
    /\ UNCHANGED <<links, idx, link, driver, resp, soup, article, store, exc, upserts>>

\* urlparse and the scheme/host test (utils.py 232-236); the handler of this
\* try block catches requests.exceptions.RequestException only
Validate ==
    /\ pc = "validate"
    /\ LET parsed == urlparse(link)
       IN IF parsed.raises THEN Escape("ValueError")
          ELSE IF ~valid_url(parsed) THEN Continue(TRUE) /\ UNCHANGED exc
          ELSE pc' = "probe" /\ UNCHANGED <<skipped_cnt, no_upsert_cnt, exc>>
    /\ UNCHANGED <<links, idx, link, driver, resp, soup, article, store, calls, upserts>>

\* requests.get (utils.py 237-242)
Probe ==
    /\ pc = "probe"
    /\ \/ /\ calls' = Append(calls, Call("requests.get", link, "RequestException"))
          /\ Continue(TRUE)
          /\ UNCHANGED resp
       \/ /\ resp' \in Statuses
          /\ calls' = Append(calls, Call("requests.get", link, "response"))
          /\ pc' = "status"
          /\ UNCHANGED <<skipped_cnt, no_upsert_cnt>>
    /\ UNCHANGED <<links, idx, link, driver, soup, article, store, exc, upserts>>

\* the status test (utils.py 243-246)
CheckStatus ==
    /\ pc = "status"
    /\ IF resp \in bad_statuses THEN Continue(TRUE)
       ELSE pc' = "render" /\ UNCHANGED <<skipped_cnt, no_upsert_cnt>>
    /\ UNCHANGED <<links, idx, link, driver, resp, soup, article, store, exc, calls,
                   upserts>>

\* driver.get, page_source and the parse (utils.py 250-253); an error is
\* caught by the handler at 268-270, which does not touch the counter
Render ==
    /\ pc = "render"
    /\ \/ /\ soup' \in Docs
          /\ calls' = Append(calls, Call("driver.get", link, "page"))
          /\ pc' = "extract"
          /\ UNCHANGED <<skipped_cnt, no_upsert_cnt>>
       \/ /\ calls' = Append(calls, Call("driver.get", link, "raise"))
          /\ Continue(FALSE)
          /\ UNCHANGED soup
    /\ UNCHANGED <<links, idx, link, driver, resp, article, store, exc, upserts>>

\* the article dict (utils.py 255-265)
Extract ==
    /\ pc = "extract"
    /\ \E have_dateparser \in BOOLEAN :
         LET art == build_article(soup, link, have_dateparser)
         IN IF art.published_at = Raise
            THEN Continue(FALSE) /\ UNCHANGED article
            ELSE /\ article' = art
                 /\ pc' = "save"
                 /\ UNCHANGED <<skipped_cnt, no_upsert_cnt>>
    /\ UNCHANGED <<links, idx, link, driver, resp, soup, store, exc, calls, upserts>>

\* save_article(article) (utils.py 267), db_ok telling whether the database
\* answers at all; an error is caught by the handler at 268-270, and the
\* table is then as update_or_create left it
Save ==
    /\ pc = "save"
    /\ \E db_ok \in BOOLEAN :
         LET res == save_article(store, article, "uuid4")
             key == save_url(article, "uuid4").s
         IN IF db_ok /\ ~res.raises
            THEN /\ store' = res.store
                 /\ calls' = Append(calls, Call("update_or_create", key,
                                               IF res.created THEN "created" ELSE "updated"))
                 /\ upserts' = Append(upserts, [idx |-> idx, url |-> save_url(article, "uuid4").s])
                 /\ pc' = "loop"
                 /\ UNCHANGED <<skipped_cnt, no_upsert_cnt>>
            ELSE /\ calls' = Append(calls, Call("update_or_create", key,
                                               IF db_ok THEN "IntegrityError"
                                               ELSE "DatabaseError"))
                 /\ Continue(FALSE)
                 /\ store' = IF db_ok THEN res.store ELSE store
                 /\ UNCHANGED upserts
    /\ UNCHANGED <<links, idx, link, driver, resp, soup, article, exc>>

\* mutant: the finally block quits without asking whether a driver was built
finally_driver_always(d) == "quit"

\* mutant: the finally block does not quit
finally_driver_noquit(d) == d

\* what the finally block leaves of the driver (utils.py 272-276): quit is
\* called on a driver that was built, and its own error is swallowed
finally_driver(d) == IF d = "live" THEN "quit" ELSE d

\* the finally block, then the return or the re-raise
Finally ==
    /\ pc = "finally"
    /\ driver' = finally_driver(driver)
    /\ pc' = IF exc = "none" THEN "returned" ELSE "raised"
    /\ UNCHANGED <<links, idx, link, resp, soup, article, store, skipped_cnt, exc, calls,
                   no_upsert_cnt, upserts>>

Next ==
    \/ BuildDriver
    \/ LoadLinks
    \/ NextLink
    \/ CheckExists
    \/ Validate
    \/ Probe
    \/ CheckStatus
    \/ Render
    \/ Extract
    \/ Save
    \/ Finally

Spec == Init /\ [][Next]_vars

(* ----------------------- save_article on its own ---------------------- *)

\* article dicts a caller may hand to save_article: every field absent,
\* blank or set; the body as a str or as a Tag; the publish date as a str in
\* the expected format, as a str that is no date, as a str of the right
\* shape that names no date, or as a datetime
ArticleInputs ==
    [title : {None, Str(<<" ">>), Str(<<" ", "T", " ">>)},
     body : {None, Str(<<" ">>), Str(<<"b">>), Tag("div", "", <<" ">>, <<>>),
             Tag("article", "", <<"b">>, <<>>)},
     plain_body : {None, Str(<<" ">>), Str(<<"p">>)},
     published_at : {None, Str(<<>>), Str(strftime(DateTime(2024, 3, 1, 10, 0, 0))),
                     Str(<<"soon">>), Str(strftime(DateTime(2024, 13, 32, 10, 0, 0))),
                     DateTime(2024, 3, 1, 10, 0, 0)},
     url : {None, Str(UrlA)}]

InitSave ==
    /\ pc = "save_article"
    /\ article \in ArticleInputs
    /\ store \in InitStores
    /\ links = <<>>
    /\ idx = 0
    /\ link = <<>>
    /\ driver = "none"
    /\ resp = 0
    /\ soup = None
    /\ skipped_cnt = 0
    /\ exc = "none"
    /\ calls = <<>>
    /\ no_upsert_cnt = 0
    /\ upserts = <<>>

\* one call save_article(article) (utils.py 136-183)
SaveArticle ==
    /\ pc = "save_article"
    /\ LET res == save_article(store, article, "uuid4")
           key == save_url(article, "uuid4").s
       IN /\ store' = res.store
          /\ calls' = <<Call("update_or_create", key,
                             IF res.raises THEN "IntegrityError"
                             ELSE IF res.created THEN "created" ELSE "updated")>>
          /\ pc' = IF res.raises THEN "save_raised" ELSE "saved"
    /\ UNCHANGED <<links, idx, link, driver, resp, soup, article, skipped_cnt, exc,
                   no_upsert_cnt, upserts>>

SaveSpec == InitSave /\ [][SaveArticle]_vars

(* ------------------------ the finders on their own -------------------- *)

\* a text of n characters
Txt(n) == [i \in 1..n |-> "x"]

\* documents for title_finder: each of <h1>, og:title and <title> missing,
\* empty or blank, or set
TitleSoups ==
    {Soup(h1, og, title, <<>>, None, None) :
        h1 \in {None, Tag("h1", "", <<>>, <<>>), Tag("h1", "", <<" ", "A", " ">>, <<>>)},
        og \in {None, Meta(None), Meta(Str(<<" ">>)), Meta(Str(<<" ", "O">>))},
        title \in {None, Tag("title", "", <<>>, <<>>), Tag("title", "", <<"Foo">>, <<>>)}}

\* elements for body_finder: plain divs below, at and above the threshold,
\* a div that is above it only with the ad nested in it, an ad container,
\* and containers the selectors name
Elements ==
    { Tag("div", "", Txt(BodyThreshold \div 2), <<>>),
      Tag("div", "", Txt(BodyThreshold), <<>>),
      Tag("div", "", LongText, <<>>),
      Tag("div", "", Txt(60), Txt(60)),
      Tag("div", "ad-container", Txt(150), <<>>),
      Tag("article", "", <<"b">>, <<"ad">>),
      Tag("div", "post-content", <<"c">>, <<>>),
      Tag("div", "table-post", <<>>, <<"ad">>) }

RECURSIVE ElemsUpTo(_)
ElemsUpTo(n) ==
    IF n = 0 THEN {<<>>}
    ELSE ElemsUpTo(n - 1) \cup
         {Append(l, e) : l \in {m \in ElemsUpTo(n - 1) : Len(m) = n - 1}, e \in Elements}

BodySoups == {Soup(None, None, None, elems, None, None) : elems \in ElemsUpTo(MaxElems)}

\* raw date strings: two that dateparser reads, one it does not, one it
\* fails on
RawDates == {<<"2024-03-01T10:00:00">>, <<"1 marca 2024">>, <<"soon">>, <<"\\x00">>}

\* documents for published_at_finder
DateSoups ==
    {Soup(None, None, None, <<>>, time, author) :
        time \in {None, TimeTag(None, <<>>)}
                 \cup {TimeTag(Str(raw), <<>>) : raw \in RawDates}
                 \cup {TimeTag(None, raw) : raw \in RawDates},
        author \in {None, AuthorLink(None), AuthorLink(Str(<<>>))}
                   \cup {AuthorLink(Str(raw)) : raw \in RawDates}}

InitFind ==
    /\ \/ pc = "title_finder" /\ soup \in TitleSoups
       \/ pc = "body_finder" /\ soup \in BodySoups
       \/ pc = "published_at_finder" /\ soup \in DateSoups
    /\ article = None
    /\ store = {}
    /\ links = <<>>
    /\ idx = 0
    /\ link = <<>>
    /\ driver = "none"
    /\ resp = 0
    /\ skipped_cnt = 0
    /\ exc = "none"
    /\ calls = <<>>
    /\ no_upsert_cnt = 0
    /\ upserts = <<>>

FindUnchanged ==
    UNCHANGED <<links, idx, link, driver, resp, soup, store, skipped_cnt, exc, calls,
                no_upsert_cnt, upserts>>

\* one call title_finder(soup)
FindTitle ==
    /\ pc = "title_finder"
    /\ article' = [result |-> title_finder(soup)]
    /\ pc' = "title_found"
    /\ FindUnchanged

\* one call body_finder(soup)
FindBody ==
    /\ pc = "body_finder"
    /\ article' = [result |-> body_finder(soup)]
    /\ pc' = "body_found"
    /\ FindUnchanged

\* one call published_at_finder(soup), with dateparser installed or not
FindPublishedAt ==
    /\ pc = "published_at_finder"
    /\ \E have_dateparser \in BOOLEAN :
         article' = [result |-> published_at_finder(soup, have_dateparser),
                     have_dateparser |-> have_dateparser]
    /\ pc' = "published_at_found"
    /\ FindUnchanged

FindNext == FindTitle \/ FindBody \/ FindPublishedAt

FindSpec == InitFind /\ [][FindNext]_vars

(* ------------------------------- claims ------------------------------- *)

\* the run is over: the finally block is reached or done
Ended == pc \in {"finally", "returned", "raised"}

\* the URL list was read, so the loop was entered
Loaded == exc \notin {"WebDriverException", "OSError"} /\ pc \notin {"build", "load"}

\* the table holds a row keyed by url
InStore(url) == \E r \in store : r.url = url

\* the calls of the current iteration to operation op
CallsOf(op) == {i \in 1..Len(calls) : calls[i].op = op}

LastCall == calls[Len(calls)]

\* the step appends a call to one of the operations ops
Calling(ops) == calls' # calls /\ calls' # <<>> /\ calls'[Len(calls')].op \in ops

\* C1: per-item fault isolation: whatever step fails on the i-th URL, the run
\* does not abort and every later URL of the list is still processed, so a
\* run that read its list ends without an error and with every URL iterated.
C1_FaultIsolation == (Ended /\ Loaded) => (exc = "none" /\ idx = Len(links))

\* C2 (as stated): a URL whose normalized form is a key of the table when its
\* iteration starts is neither probed, nor rendered, nor upserted.
C2_DedupSkipAlways ==
    [][Calling({"requests.get", "driver.get", "update_or_create"}) => ~InStore(link)]_vars

\* C2 (amended): a URL whose normalized form is a key of the table when its
\* iteration starts, and whose existence check answers, is neither probed,
\* nor rendered, nor upserted.
C2_DedupSkip ==
    [][Calling({"requests.get", "driver.get", "update_or_create"})
         => (~InStore(link) \/ calls[1] = Call("exists", link, "raise"))]_vars

\* C2 witness: an iteration ended right after the existence check found the key
C2_Witness ==
    pc = "loop" /\ idx >= 1 /\ InStore(link) /\ calls = <<Call("exists", link, "True")>>

\* no two rows share a key
UniqueKeys == \A r1, r2 \in store : r1.url = r2.url => r1 = r2

\* the rows keyed by url
RowsOf(url) == {r \in store : r.url = url}

\* positions i, j of the list holding u + '/' and u
SlashPairs ==
    {p \in (1..Len(links)) \X (1..Len(links)) : links[p[1]] = links[p[2]] \o <<"/">>}

\* the successful upserts of the list entries at i and j
UpsertsOf(i, j) == {k \in 1..Len(upserts) : upserts[k].idx \in {i, j}}

\* C3 (as stated): the table never holds two rows with one key, and a list
\* with both u + '/' and u leaves exactly one row for the two entries, keyed
\* by u. (Read in the claim's favour: only once one of the two entries was
\* upserted at all.)
C3_KeyUniqueExactlyOne ==
    /\ UniqueKeys
    /\ \A p \in SlashPairs :
         UpsertsOf(p[1], p[2]) # {} =>
            /\ \A k \in UpsertsOf(p[1], p[2]) : upserts[k].url = links[p[2]]
            /\ Cardinality(RowsOf(links[p[2]])) = 1

\* C3 (amended): the table never holds two rows with one key; for u not
\* ending in '/', whatever the run upserts for the list entries u + '/' and u
\* is keyed by u, and once one of them was upserted the table holds exactly
\* one row keyed by u.
C3_KeyUnique ==
    /\ UniqueKeys
    /\ \A p \in SlashPairs :
         (~endswith_slash(links[p[2]]) /\ UpsertsOf(p[1], p[2]) # {}) =>
               /\ \A k \in UpsertsOf(p[1], p[2]) : upserts[k].url = links[p[2]]
               /\ Cardinality(RowsOf(links[p[2]])) = 1

\* C3 witness: the run is over a list <<u + '/', u>>, the first entry was
\* created and the second one skipped as already saved
C3_Witness ==
    /\ pc = "returned"
    /\ Len(links) = 2
    /\ <<1, 2>> \in SlashPairs
    /\ ~endswith_slash(links[2])
    /\ Len(upserts) = 1
    /\ upserts[1].idx = 1
    /\ calls = <<Call("exists", links[2], "True")>>
    /\ Cardinality(store) = 1

\* C4: once the driver was built, every way out of the run (the loop ended,
\* the list could not be read, an error escaped the loop) goes through
\* driver.quit before the run is over, and nothing is rendered after it.
C4_SessionReleased ==
    /\ [](pc \in {"returned", "raised"} => driver # "live")
    /\ [][driver = "quit" => ~Calling({"driver.get"})]_vars

\* C4 witness: an error escaped the loop and the driver was quit
C4_Witness == pc = "raised" /\ exc = "ValueError" /\ driver = "quit" /\ idx < Len(links)

\* C5: a URL whose probe fails (network error or a status of bad_statuses)
\* is not rendered, leaves the table as it was and adds one to the skip
\* counter.
C5_ProbeGating ==
    [][(pc \in {"probe", "status"} /\ pc' = "loop")
         => /\ CallsOf("driver.get")' = {}
            /\ store' = store
            /\ skipped_cnt' = skipped_cnt + 1]_vars

\* the link as the loop is to use it: without one trailing '/', if it had one
Canonical(u) == IF u # <<>> /\ u[Len(u)] = "/" THEN [i \in 1..(Len(u) - 1) |-> u[i]] ELSE u

\* C6: every call of an iteration (existence check, probe, render, upsert)
\* is given the input URL with exactly one trailing '/' removed, or the
\* input URL itself when it does not end in '/'.
C6_CanonicalKey ==
    idx >= 1 => /\ link = Canonical(links[idx])
                /\ \A i \in 1..Len(calls) : calls[i].url = Canonical(links[idx])

\* C6 witness: a URL ending in '/' went through all four calls
C6_Witness ==
    /\ idx >= 1
    /\ endswith_slash(links[idx])
    /\ Len(calls) = 4
    /\ calls[4].op = "update_or_create"
    /\ calls[4].url # links[idx]

\* the URL ends in two or more '/'
EndsInSlashes(u) == Len(u) >= 2 /\ u[Len(u)] = "/" /\ u[Len(u) - 1] = "/"

\* C7 (as stated): the clean-up of the trailing separator is idempotent for
\* every URL: applied to the link the loop already cleaned, it changes
\* nothing.
C7_IdempotentAlways == idx >= 1 => strip_link(link) = link

\* C7 (amended): the clean-up of the trailing separator is idempotent for
\* every URL that does not end in two or more '/'.
C7_Idempotent == (idx >= 1 /\ ~EndsInSlashes(links[idx])) => strip_link(link) = link

\* C7 witness: the loop cleaned a URL that ended in a single '/'
C7_Witness ==
    /\ idx >= 1
    /\ endswith_slash(links[idx])
    /\ ~EndsInSlashes(links[idx])
    /\ link # links[idx]
    /\ pc = "exists"

\* C8: a candidate without a (parseable) publish date, for a URL that has no
\* row yet, is saved all the same, as a row whose published_at is absent
\* (the database being reachable).
C8_MissingDateSaved ==
    (/\ pc = "loop"
     /\ calls # <<>>
     /\ LastCall.op = "update_or_create"
     /\ LastCall.res \in {"created", "IntegrityError"}
     /\ IsNone(save_published_at(article)))
    => /\ LastCall.res = "created"
       /\ \E r \in RowsOf(LastCall.url) : IsNone(r.published_at)

\* C10: after any prefix of the list, the skip counter is the number of
\* URLs of the prefix that ended without an upsert.
C10_SkipCounter == pc = "loop" => skipped_cnt = no_upsert_cnt

\* the field is absent, or a str that is empty once stripped
Blank(v) == IsNone(v) \/ (v.kind = "str" /\ strip(v.s) = <<>>)

\* a str that is not empty
NonEmptyStr(v) == v.kind = "str" /\ v.s # <<>>

\* C9: every row save_article writes has a non-empty title, body and
\* plain_body, and when the three are absent (or blank) in the candidate the
\* three of the row are the sentinel "Not Found".
C9_Sentinel ==
    pc = "saved" =>
       \A r \in RowsOf(LastCall.url) :
          /\ NonEmptyStr(r.title) /\ NonEmptyStr(r.body) /\ NonEmptyStr(r.plain_body)
          /\ (Blank(article.title) /\ Blank(article.body) /\ Blank(article.plain_body))
                => (r.title = NotFound /\ r.body = NotFound /\ r.plain_body = NotFound)

\* C9 witness: a candidate with the three fields absent or blank was written
\* as a new row
C9_Witness ==
    /\ pc = "saved"
    /\ LastCall.res = "created"
    /\ IsNone(article.title) /\ article.body = Str(<<" ">>) /\ IsNone(article.plain_body)
    /\ \E r \in RowsOf(LastCall.url) : r.title = NotFound

\* C11: the keys upserted during a run are, in input order, the normalized
\* URLs of some of the list entries, at most one upsert per entry, and the
\* loop moves to the next entry only when the iteration of the current one
\* is over, every call being made for the current entry.
C11_UpsertOrder ==
    /\ [](\A k \in 1..Len(upserts) :
            /\ upserts[k].idx \in 1..idx
            /\ upserts[k].url = Canonical(links[upserts[k].idx])
            /\ \A m \in 1..Len(upserts) : k < m => upserts[k].idx < upserts[m].idx)
    /\ [][idx' # idx => (pc = "loop" /\ idx' = idx + 1 /\ calls' = <<>>)]_vars
    /\ [][Calling({"requests.get", "driver.get", "update_or_create"})
            => calls'[Len(calls')].url = Canonical(links[idx]) /\ idx' = idx]_vars

\* C11 witness: both entries of a two-element list were upserted, in order
C11_Witness ==
    /\ Len(links) = 2
    /\ links[1] # links[2]
    /\ Len(upserts) = 2
    /\ upserts[1].idx = 1 /\ upserts[2].idx = 2
    /\ upserts[1].url # upserts[2].url

\* C12: when webdriver_builder fails the run ends with that error: no URL is
\* iterated, checked against the table, probed, rendered or saved, the table
\* stays as it was, and quit is not called on the driver that never was.
C12_FatalStartup ==
    /\ [](exc = "WebDriverException" =>
            /\ pc \in {"finally", "raised"}
            /\ idx = 0 /\ calls = <<>> /\ upserts = <<>>
            /\ driver = "none")
    /\ [][(exc' = "WebDriverException") => store' = store]_vars

\* C12 witness: the run over a non-empty list ended with the driver's error
C12_Witness == pc = "raised" /\ exc = "WebDriverException" /\ Len(links) = 2

\* the value, or None when it is absent or an empty str
NonEmptyOrNone(v) == IF v.kind = "str" /\ v.s # <<>> THEN v ELSE None

\* the three title strategies, each giving a non-empty str or None
TitleFromH1(sp) == IF IsNone(sp.h1) THEN None ELSE NonEmptyOrNone(Str(strip(sp.h1.text)))

TitleFromOg(sp) ==
    IF IsNone(sp.og) THEN None
    ELSE IF IsNone(sp.og.content) THEN None
    ELSE NonEmptyOrNone(Str(strip(sp.og.content.s)))

TitleFromTitle(sp) ==
    IF IsNone(sp.title) THEN None ELSE NonEmptyOrNone(Str(strip(sp.title.text)))

\* the first strategy that yields something
FirstTitle(sp) ==
    IF ~IsNone(TitleFromH1(sp)) THEN TitleFromH1(sp)
    ELSE IF ~IsNone(TitleFromOg(sp)) THEN TitleFromOg(sp)
    ELSE TitleFromTitle(sp)

\* C13: title_finder returns the first non-empty result of <h1>, og:title,
\* <title>, in this order, None only when none of them yields a text, and
\* never an empty str.
C13_TitleChain ==
    pc = "title_found" =>
       /\ article.result = FirstTitle(soup)
       /\ article.result # Str(<<>>)

\* the element is an ad container
IsAd(e) == e.name = "div" /\ e.cls = "ad-container"

\* the element is one of the containers the fixed selectors name
IsContainer(e) ==
    \/ e.name = "article"
    \/ e.name = "div" /\ e.cls \in {"table-post", "article-body", "post-content"}

\* the element as it is once the ads nested in it are gone
Cleaned(e) == [e EXCEPT !.adtext = <<>>]

\* the length of the element's own stripped text, ads left out
OwnLen(e) == Len(strip(e.text))

\* the positions of the divs that are no ad containers
PlainDivs(sp) == {i \in 1..Len(sp.elems) : sp.elems[i].name = "div" /\ ~IsAd(sp.elems[i])}

\* none of the fixed selectors matches in the document
NoContainer(sp) == \A i \in 1..Len(sp.elems) : IsAd(sp.elems[i]) \/ ~IsContainer(sp.elems[i])

\* C14: when none of the fixed selectors matches, body_finder returns the
\* div of longest stripped text if that text is longer than 100 characters,
\* and None otherwise (also when the document has no div).
C14_BodyThreshold ==
    (pc = "body_found" /\ NoContainer(soup)) =>
       IF \E i \in PlainDivs(soup) : OwnLen(soup.elems[i]) > 100
       THEN \E i \in PlainDivs(soup) :
               /\ article.result = Cleaned(soup.elems[i])
               /\ OwnLen(soup.elems[i]) > 100
               /\ \A j \in PlainDivs(soup) : OwnLen(soup.elems[j]) <= OwnLen(soup.elems[i])
       ELSE article.result = None

\* C14 witness: the fallback declined a div of exactly 100 characters
C14_Witness ==
    /\ pc = "body_found"
    /\ NoContainer(soup)
    /\ \E i \in PlainDivs(soup) : OwnLen(soup.elems[i]) = 100
    /\ article.result = None

\* C15: the node body_finder returns holds no ad container and is none; the
\* ads are gone before a selector or the largest-div rule looks at an
\* element, so a div is never chosen for the text of its ads; and with one ad
\* container and one <article> the <article> is returned.
C15_AdsRemoved ==
    pc = "body_found" =>
       /\ ~IsNone(article.result) =>
             /\ article.result.adtext = <<>>
             /\ ~IsAd(article.result)
             /\ \E i \in 1..Len(soup.elems) : article.result = Cleaned(soup.elems[i])
             /\ IsContainer(article.result) \/ OwnLen(article.result) > 100
       /\ (/\ Len(soup.elems) = 2
           /\ \E i, j \in 1..2 : IsAd(soup.elems[i]) /\ soup.elems[j].name = "article")
          => article.result.name = "article"

\* C15 witness: an <article> with an ad nested in it, next to an ad
\* container, was returned without the ad
C15_Witness ==
    /\ pc = "body_found"
    /\ Len(soup.elems) = 2
    /\ IsAd(soup.elems[1])
    /\ soup.elems[2].name = "article" /\ soup.elems[2].adtext # <<>>
    /\ article.result = Cleaned(soup.elems[2])

\* C16: an iteration that ends in a skip or in a failure, at whatever step,
\* leaves the table exactly as it was when the iteration started: no step
\* before the save touches it, and a step that ends the iteration without an
\* upsert leaves every row as it was.
C16_SavedStateKept ==
    /\ [][pc # "save" => store' = store]_vars
    /\ [][no_upsert_cnt' # no_upsert_cnt => store' = store]_vars

\* C16 witness: the save of an iteration failed and the earlier row is there
C16_Witness ==
    /\ pc = "loop"
    /\ calls # <<>>
    /\ LastCall.op = "update_or_create"
    /\ LastCall.res = "IntegrityError"
    /\ store = {OldRow(UrlA)}

\* the link parses, and its scheme is not http(s) or its host is empty
BadSchemeOrHost(u) ==
    /\ ~urlparse(u).raises
    /\ urlparse(u).scheme \notin {"http", "https"} \/ urlparse(u).netloc = ""

\* C17: a URL whose scheme is not http/https or whose host is empty is
\* neither probed nor rendered nor saved, and the step that finds it invalid
\* goes on to the next URL.
C17_ValidationGating ==
    /\ [](idx >= 1 /\ BadSchemeOrHost(link) =>
            CallsOf("requests.get") \cup CallsOf("driver.get")
               \cup CallsOf("update_or_create") = {})
    /\ [][(pc = "validate" /\ BadSchemeOrHost(link)) =>
            (pc' = "loop" /\ store' = store /\ exc' = "none")]_vars

\* C17 witness: the second URL is being handled after a first one with a
\* scheme that is not http(s) got past the existence check and was dropped
C17_Witness ==
    /\ idx = 2
    /\ pc = "exists"
    /\ BadSchemeOrHost(Canonical(links[1]))
    /\ urlparse(links[1]).scheme = "ftp"
    /\ skipped_cnt = 1

\* C18: an error raised by the date parsing, at the <time> step or at the
\* author-link step, is swallowed, so the Extract step never raises and hands
\* the title and the body it found to the save.
C18_DateErrorSwallowed ==
    [][pc = "extract" =>
         /\ pc' = "save"
         /\ article'.title = title_finder(soup)
         /\ article'.body = body_finder(soup)]_vars

\* C19: when the existence check raises, the URL is not skipped and goes on
\* to validation (and from there to probe, render and upsert); an upsert for
\* a key that has a row happens only then, updates that row in place and
\* leaves the number of rows and every other row as they were.
C19_DedupFailsOpen ==
    /\ [][(pc = "exists" /\ calls'[Len(calls')].res = "raise") =>
            (pc' = "validate" /\ skipped_cnt' = skipped_cnt
             /\ no_upsert_cnt' = no_upsert_cnt)]_vars
    /\ [][(Calling({"update_or_create"}) /\ InStore(link)) =>
            /\ calls[1] = Call("exists", link, "raise")
            /\ calls'[Len(calls')].res \in {"updated", "DatabaseError"}
            /\ Cardinality(store') = Cardinality(store)
            /\ \A r \in store : r.url # link => r \in store'
            /\ \A r \in store : r.url = link =>
                  \E n \in store' : n.url = link /\ n.id = r.id]_vars

\* C19 witness: the check raised for a stored key and the row was updated
C19_Witness ==
    /\ pc = "loop"
    /\ Len(calls) = 4
    /\ calls[1].res = "raise"
    /\ calls[4] = Call("update_or_create", link, "updated")
    /\ Cardinality(store) = 1
    /\ \E r \in store : r.url = link /\ r.title # OldRow(link).title

====
